---- MODULE Spec2Model ----
(***************************************************************************)
(* A model of the PDF highlighter of src/main.py: the chunker              *)
(* (chunk_text), the phrase-extraction client (get_key_phrases_for_chunk), *)
(* the highlighter (highlight_pdf) and the orchestrator (main).            *)
(*                                                                         *)
(* A Python str is a sequence of characters.  A character is a one-letter  *)
(* string; the character BigRunChar stands for an unbroken run of BigRun   *)
(* ordinary (non-newline, non-space) characters, so that a paragraph       *)
(* longer than the default chunk size of 3000 is a short sequence.  Every  *)
(* string operation the model uses (len, split on the blank line,          *)
(* concatenation, strip, verbatim search) treats such a run as a unit.     *)
(***************************************************************************)
EXTENDS Integers, Sequences, FiniteSets, TLC

VARIABLES
    text,             \* chunk_text: its argument text
    max_chunk_size,   \* chunk_text: its argument max_chunk_size
    chunks,           \* chunk_text: the list it returned
    retry_count,      \* get_key_phrases_for_chunk: its argument retry_count
    attempt,          \* get_key_phrases_for_chunk: the loop variable attempt
    response,         \* get_key_phrases_for_chunk: the response of the last post
    sent,             \* requests posted by the current call
    waited,           \* time.sleep calls made by the current call
    wait_time,        \* the duration of the last of them, in ticks (0: none yet)
    reported,         \* the current call reported an error with st.error
    key_phrases,      \* what the current call returned
    cpc,              \* position inside get_key_phrases_for_chunk
    pdf_bytes,        \* main: pdf_bytes, highlight_pdf: input_pdf_bytes
    all_key_phrases,  \* main: all_key_phrases, highlight_pdf: key_phrases
    tmp_exists,       \* highlight_pdf: the file at tmp_path exists
    annots,           \* highlight_pdf: the annotations added to doc so far
    raising,          \* highlight_pdf: an exception is on its way out
    highlighted_pdf,  \* what highlight_pdf returned
    hpc,              \* position inside highlight_pdf
    clicked,          \* the confirmation button was clicked and starts this run
    go_ahead,         \* the button has been clicked at some time
    i,                \* main: the loop variable i
    progress,         \* main: the chunk number last shown by progress_bar
    slept,            \* main: time.sleep(1) calls made by this run
    download,         \* main: the data of the download button, NoDocument if none
    pc                \* position inside main

chunkVars == <<text, max_chunk_size, chunks>>
clientVars == <<retry_count, attempt, response, sent, waited, wait_time, reported,
                key_phrases, cpc>>
hlVars == <<tmp_exists, annots, raising, highlighted_pdf, hpc>>
mainData == <<pdf_bytes, all_key_phrases, clicked, go_ahead, i, progress, slept,
              download>>
mainVars == <<mainData, pc>>
vars == <<chunkVars, clientVars, hlVars, mainVars>>

\* ------------------------------------------------------------------ bounds
MaxLen == 8           \* longest text given to chunk_text on its own
MaxM == 3             \* largest max_chunk_size given to chunk_text on its own
BigRun == 3001        \* characters the run character stands for
MaxRetry == 3         \* largest retry_count given to the client on its own
MaxHint == 4          \* longest text after "try again in " in an error message
MaxContent == 4       \* longest content of a 200 response given to the client
MaxPages == 2         \* most pages of a document given to highlight_pdf on its own
MaxPhrases == 2       \* most phrases in all_key_phrases
MaxDocPages == 11     \* most pages of a document uploaded to main

\* ----------------------------------------------------------------- strings
NL == "\n"
BigRunChar == "W"
BlankLine == <<NL, NL>>            \* the separator '\n\n'

CharLen(c) == IF c = BigRunChar THEN BigRun ELSE 1

\* Python's len(s): one for each character, BigRun for each run character.
len(s) == Len(s) + (BigRun - 1) * Cardinality({k \in 1..Len(s) : s[k] = BigRunChar})

\* The least element of a non-empty set of numbers.
Min(S) == CHOOSE k \in S : \A j \in S : k <= j

\* Index of the first occurrence of '\n\n' in s, 0 if none.
FindBlankLine(s) ==
    LET found == {k \in 1..(Len(s) - 1) : s[k] = NL /\ s[k + 1] = NL} IN
    IF found = {} THEN 0 ELSE Min(found)

\* Python's s.split('\n\n'): cut at each occurrence found scanning left to right.
RECURSIVE split_blank(_)
split_blank(s) ==
    LET k == FindBlankLine(s) IN
    IF k = 0 THEN <<s>>
    ELSE <<SubSeq(s, 1, k - 1)>> \o split_blank(SubSeq(s, k + 2, Len(s)))

\* sep.join(parts)
RECURSIVE join(_, _)
join(parts, sep) ==
    IF parts = <<>> THEN <<>>
    ELSE IF Len(parts) = 1 THEN parts[1]
    ELSE parts[1] \o sep \o join(Tail(parts), sep)

\* All sequences over S of length at most n.
RECURSIVE SeqsUpTo(_, _)
SeqsUpTo(S, n) ==
    IF n = 0 THEN {<<>>}
    ELSE LET shorter == SeqsUpTo(S, n - 1) IN
         shorter \cup {Append(s, c) : s \in {t \in shorter : Len(t) = n - 1}, c \in S}

\* -------------------------------------------------------------- chunk_text
\* chunk_loop without `and current_chunk` at line 29: an empty accumulation is
\* closed like any other.
RECURSIVE chunk_loopNoGuard(_, _, _, _)
chunk_loopNoGuard(paragraphs, acc, current_chunk, M) ==
    IF paragraphs = <<>>
    THEN IF current_chunk # <<>> THEN Append(acc, current_chunk) ELSE acc
    ELSE LET paragraph == Head(paragraphs) IN
         IF len(current_chunk) + len(paragraph) > M
         THEN chunk_loopNoGuard(Tail(paragraphs), Append(acc, current_chunk), paragraph, M)
         ELSE IF current_chunk # <<>>
              THEN chunk_loopNoGuard(Tail(paragraphs), acc,
                                     current_chunk \o BlankLine \o paragraph, M)
              ELSE chunk_loopNoGuard(Tail(paragraphs), acc, paragraph, M)

\* chunk_loop closing a chunk by its own length alone, whatever the length of
\* the paragraph that comes next.
RECURSIVE chunk_loopIgnoresParagraph(_, _, _, _)
chunk_loopIgnoresParagraph(paragraphs, acc, current_chunk, M) ==
    IF paragraphs = <<>>
    THEN IF current_chunk # <<>> THEN Append(acc, current_chunk) ELSE acc
    ELSE LET paragraph == Head(paragraphs) IN
         IF len(current_chunk) > M /\ current_chunk # <<>>
         THEN chunk_loopIgnoresParagraph(Tail(paragraphs), Append(acc, current_chunk),
                                         paragraph, M)
         ELSE IF current_chunk # <<>>
              THEN chunk_loopIgnoresParagraph(Tail(paragraphs), acc,
                                              current_chunk \o BlankLine \o paragraph, M)
              ELSE chunk_loopIgnoresParagraph(Tail(paragraphs), acc, paragraph, M)

\* chunk_loop without `if current_chunk:` at line 38: the last accumulation is
\* appended even when it is empty.
RECURSIVE chunk_loopNoFinalGuard(_, _, _, _)
chunk_loopNoFinalGuard(paragraphs, acc, current_chunk, M) ==
    IF paragraphs = <<>>
    THEN Append(acc, current_chunk)
    ELSE LET paragraph == Head(paragraphs) IN
         IF len(current_chunk) + len(paragraph) > M /\ current_chunk # <<>>
         THEN chunk_loopNoFinalGuard(Tail(paragraphs), Append(acc, current_chunk),
                                     paragraph, M)
         ELSE IF current_chunk # <<>>
              THEN chunk_loopNoFinalGuard(Tail(paragraphs), acc,
                                          current_chunk \o BlankLine \o paragraph, M)
              ELSE chunk_loopNoFinalGuard(Tail(paragraphs), acc, paragraph, M)

\* The for loop of chunk_text over the remaining paragraphs, then the final append.
RECURSIVE chunk_loop(_, _, _, _)
chunk_loop(paragraphs, acc, current_chunk, M) ==
    IF paragraphs = <<>>
    THEN IF current_chunk # <<>> THEN Append(acc, current_chunk) ELSE acc
    ELSE LET paragraph == Head(paragraphs) IN
         IF len(current_chunk) + len(paragraph) > M /\ current_chunk # <<>>
         THEN chunk_loop(Tail(paragraphs), Append(acc, current_chunk), paragraph, M)
         ELSE IF current_chunk # <<>>
              THEN chunk_loop(Tail(paragraphs), acc,
                              current_chunk \o BlankLine \o paragraph, M)
              ELSE chunk_loop(Tail(paragraphs), acc, paragraph, M)

chunk_text(t, M) == chunk_loop(split_blank(t), <<>>, <<>>, M)

\* Lines 22-41: one call of chunk_text.
ChunkText ==
    /\ pc = "chunk_start"
    /\ chunks' = chunk_text(text, max_chunk_size)
    /\ pc' = "chunk_done"
    /\ UNCHANGED <<text, max_chunk_size, clientVars, hlVars, mainData>>

\* ---------------------------------------------- more operations on strings
Whitespace == {" ", NL}

\* Python's s.strip()
RECURSIVE lstrip(_)
lstrip(s) == IF s # <<>> /\ Head(s) \in Whitespace THEN lstrip(Tail(s)) ELSE s

RECURSIVE rstrip(_)
rstrip(s) ==
    IF s # <<>> /\ s[Len(s)] \in Whitespace THEN rstrip(SubSeq(s, 1, Len(s) - 1)) ELSE s

strip(s) == rstrip(lstrip(s))

\* Index of the first '\n' in s, 0 if none.
FindNL(s) ==
    LET found == {k \in 1..Len(s) : s[k] = NL} IN
    IF found = {} THEN 0 ELSE Min(found)

\* Python's s.split('\n')
RECURSIVE split_lines(_)
split_lines(s) ==
    LET k == FindNL(s) IN
    IF k = 0 THEN <<s>>
    ELSE <<SubSeq(s, 1, k - 1)>> \o split_lines(SubSeq(s, k + 1, Len(s)))

\* --------------------------------------------- get_key_phrases_for_chunk
\* Time is counted in ticks of 10^-MaxHint seconds, so that every decimal a
\* hint of at most MaxHint characters can spell is a whole number of ticks.
TicksPerSecond == 10 ^ MaxHint
DefaultWait == 10          \* wait_time = 10, in seconds

Digits == {"2", "5"}
DigitValue(c) == IF c = "2" THEN 2 ELSE 5
HintChars == Digits \cup {".", "s"}

\* The length of the longest run of digits of s that starts at position k.
RECURSIVE DigitRun(_, _)
DigitRun(s, k) ==
    IF k <= Len(s) /\ s[k] \in Digits THEN 1 + DigitRun(s, k + 1) ELSE 0

\* The value of the digits s[k..j] read as a whole number.
RECURSIVE WholeValue(_, _, _)
WholeValue(s, k, j) ==
    IF j < k THEN 0 ELSE 10 * WholeValue(s, k, j - 1) + DigitValue(s[j])

\* float(d) of a decimal d = s[1..n] "." s[n+2..n+1+m], in ticks.
FloatTicks(s, n, m) ==
    WholeValue(s, 1, n) * TicksPerSecond
        + WholeValue(s, n + 2, n + 1 + m) * 10 ^ (MaxHint - m)

\* re.search(r"try again in (\d+\.\d+)s", error_message), for the message
\* "... try again in " + tail: the ticks of group(1), or -1 when there is no match.
\* \d+ is greedy and a digit run is followed by a non-digit or the end, so giving
\* digits back never makes a match: the match, if any, takes both runs whole.
wait_match(tail) ==
    LET n == DigitRun(tail, 1)
        m == DigitRun(tail, n + 2)
    IN IF /\ n >= 1
          /\ n + 1 <= Len(tail) /\ tail[n + 1] = "."
          /\ m >= 1
          /\ n + 2 + m <= Len(tail) /\ tail[n + 2 + m] = "s"
       THEN FloatTicks(tail, n, m)
       ELSE -1

NoResponse == [status |-> 0, kind |-> "none", data |-> <<>>]

\* The responses of the service.  A 200 response carries the expected
\* choices/message/content JSON with a given content, or anything else
\* ("malformed").  A 429 response carries a body response.json() cannot parse,
\* one without an error message, or one whose message ends
\* "try again in " + data.  Any other status stands for the other failures.
Responses(contents, tails) ==
    {[status |-> 200, kind |-> "content", data |-> c] : c \in contents}
        \cup {[status |-> 200, kind |-> "malformed", data |-> <<>>]}
        \cup {[status |-> 429, kind |-> k, data |-> <<>>] : k \in {"unparseable", "no_message"}}
        \cup {[status |-> 429, kind |-> "message", data |-> t] : t \in tails}
        \cup {[status |-> 500, kind |-> "error", data |-> <<>>]}

\* Lines 80-87: the wait for a 429 response, in ticks.
WaitFor(r) ==
    IF r.kind = "message" /\ wait_match(r.data) >= 0
    THEN wait_match(r.data) + 1 * TicksPerSecond
    ELSE DefaultWait * TicksPerSecond

\* Line 77: ...["content"].strip().split('\n')
ParseContent(content) == split_lines(strip(content))

\* Lines 69-74: the next iteration of the loop posts the request and gets r back.
ClientPost(r) ==
    /\ cpc = "loop"
    /\ attempt < retry_count
    /\ response' = r
    /\ sent' = sent + 1
    /\ cpc' = "response"
    /\ UNCHANGED <<retry_count, attempt, waited, wait_time, reported, key_phrases>>

\* Line 99: the loop ran out of iterations.
ClientLoopEnd ==
    /\ cpc = "loop"
    /\ attempt >= retry_count
    /\ key_phrases' = <<>>
    /\ cpc' = "returned"
    /\ UNCHANGED <<retry_count, attempt, response, sent, waited, wait_time, reported>>

\* Lines 76-77: a 200 response is parsed and returned; a body that is not the
\* expected JSON makes the expression raise, and the exception leaves the function.
Client200 ==
    /\ cpc = "response"
    /\ response.status = 200
    /\ IF response.kind = "malformed"
       THEN cpc' = "raised" /\ UNCHANGED key_phrases
       ELSE cpc' = "returned" /\ key_phrases' = ParseContent(response.data)
    /\ UNCHANGED <<retry_count, attempt, response, sent, waited, wait_time, reported>>

\* Client429 with the test of line 92 moved before the sleep: the last
\* attempt returns at once.
Client429NoLastWait ==
    /\ cpc = "response"
    /\ response.status = 429
    /\ IF attempt = retry_count - 1
       THEN /\ cpc' = "returned"
            /\ key_phrases' = <<>>
            /\ UNCHANGED <<attempt, response, wait_time, waited>>
       ELSE /\ wait_time' = WaitFor(response)
            /\ waited' = waited + 1
            /\ cpc' = "loop"
            /\ attempt' = attempt + 1
            /\ response' = NoResponse
            /\ UNCHANGED key_phrases
    /\ UNCHANGED <<retry_count, sent, reported>>

\* Lines 78-93: a 429 response: sleep, then return [] after the last attempt.
\* When the loop goes on, response is not read again before line 70 assigns
\* it anew: the model forgets it there.
Client429 ==
    /\ cpc = "response"
    /\ response.status = 429
    /\ wait_time' = WaitFor(response)
    /\ waited' = waited + 1
    /\ IF attempt = retry_count - 1
       THEN /\ cpc' = "returned"
            /\ key_phrases' = <<>>
            /\ UNCHANGED <<attempt, response>>
       ELSE /\ cpc' = "loop"
            /\ attempt' = attempt + 1
            /\ response' = NoResponse
            /\ UNCHANGED key_phrases
    /\ UNCHANGED <<retry_count, sent, reported>>

\* ClientOther with `continue` in place of `return []`: the error is retried.
ClientOtherRetries ==
    /\ cpc = "response"
    /\ response.status \notin {200, 429}
    /\ reported' = TRUE
    /\ IF attempt = retry_count - 1
       THEN cpc' = "returned" /\ key_phrases' = <<>> /\ UNCHANGED attempt
       ELSE cpc' = "loop" /\ attempt' = attempt + 1 /\ UNCHANGED key_phrases
    /\ UNCHANGED <<retry_count, response, sent, waited, wait_time>>

\* ClientOther sleeping the default wait before it returns.
ClientOtherWaits ==
    /\ cpc = "response"
    /\ response.status \notin {200, 429}
    /\ reported' = TRUE
    /\ wait_time' = DefaultWait * TicksPerSecond
    /\ waited' = waited + 1
    /\ key_phrases' = <<>>
    /\ cpc' = "returned"
    /\ UNCHANGED <<retry_count, attempt, response, sent>>

\* Lines 94-97: any other status is reported and ends the call.
ClientOther ==
    /\ cpc = "response"
    /\ response.status \notin {200, 429}
    /\ reported' = TRUE
    /\ key_phrases' = <<>>
    /\ cpc' = "returned"
    /\ UNCHANGED <<retry_count, attempt, response, sent, waited, wait_time>>

\* ------------------------------------------------------------ documents
\* A PDF is a sequence of pages, each with its text, or bytes no library can
\* read (valid = FALSE).
Document(pages) == [valid |-> TRUE, pages |-> pages]
CorruptDocument == [valid |-> FALSE, pages |-> <<>>]
\* A saved document: the pages of its source and the annotations on them.
Annotated(doc, as) == [valid |-> TRUE, pages |-> doc.pages, annots |-> as]
NoDocument == [valid |-> FALSE, pages |-> <<>>, annots |-> <<>>]

\* s repeated n times
RECURSIVE Repeat(_, _)
Repeat(s, n) == IF n = 0 THEN <<>> ELSE s \o Repeat(s, n - 1)

\* -------------------------------------------------- extract_text_from_pdf
\* Lines 16-20: every page's text followed by '\n\n'.
RECURSIVE extract_text_from_pdf(_)
extract_text_from_pdf(pages) ==
    IF pages = <<>> THEN <<>>
    ELSE Head(pages) \o BlankLine \o extract_text_from_pdf(Tail(pages))

\* ------------------------------------------------------------ highlight_pdf
\* page.search_for(needle), a call of the PDF library: the regions of the
\* page where needle occurs verbatim, in layout order.  A region is the pair of
\* the positions of its first and last character.
RECURSIVE search_from(_, _, _)
search_from(page, needle, k) ==
    IF k + Len(needle) - 1 > Len(page) THEN <<>>
    ELSE IF SubSeq(page, k, k + Len(needle) - 1) = needle
         THEN <<<<k, k + Len(needle) - 1>>>> \o search_from(page, needle, k + 1)
         ELSE search_from(page, needle, k + 1)

search_for(page, needle) == search_from(page, needle, 1)

\* Lines 118-125 with `> 4` in place of `> 5`.
PhraseAnnotsOffByOne(pages, phrases, page_num, n) ==
    LET phrase == strip(phrases[n]) IN
    IF len(phrase) > 4
    THEN LET instances == search_for(pages[page_num], phrase) IN
         [k \in 1..Len(instances) |->
             [page |-> page_num, region |-> instances[k], color |-> "yellow",
              from |-> n]]
    ELSE <<>>

\* Lines 118-125 annotating the first instance only.
PhraseAnnotsFirstOnly(pages, phrases, page_num, n) ==
    LET phrase == strip(phrases[n]) IN
    IF len(phrase) > 5
    THEN LET instances == search_for(pages[page_num], phrase) IN
         [k \in 1..(IF Len(instances) > 0 THEN 1 ELSE 0) |->
             [page |-> page_num, region |-> instances[k], color |-> "yellow",
              from |-> n]]
    ELSE <<>>

\* Lines 118-125: the annotations phrase number n adds to page number page_num.
\* The field from (the phrase an annotation was made for) is not in the PDF.
PhraseAnnots(pages, phrases, page_num, n) ==
    LET phrase == strip(phrases[n]) IN
    IF len(phrase) > 5
    THEN LET instances == search_for(pages[page_num], phrase) IN
         [k \in 1..Len(instances) |->
             [page |-> page_num, region |-> instances[k], color |-> "yellow",
              from |-> n]]
    ELSE <<>>

\* Lines 117-125: the loop over the phrases, from phrase number n on.
RECURSIVE PageAnnots(_, _, _, _)
PageAnnots(pages, phrases, page_num, n) ==
    IF n > Len(phrases) THEN <<>>
    ELSE PhraseAnnots(pages, phrases, page_num, n)
             \o PageAnnots(pages, phrases, page_num, n + 1)

\* Lines 113-125: the loop over the pages, from page number page_num on.
RECURSIVE DocAnnots(_, _, _)
DocAnnots(pages, phrases, page_num) ==
    IF page_num > Len(pages) THEN <<>>
    ELSE PageAnnots(pages, phrases, page_num, 1)
             \o DocAnnots(pages, phrases, page_num + 1)

\* Lines 104-106: the temporary file is created and written, before the try.
HlWriteTmp(ok) ==
    /\ hpc = "start"
    /\ tmp_exists' = TRUE
    /\ hpc' = IF ok THEN "try" ELSE "raised"
    /\ UNCHANGED <<annots, raising, highlighted_pdf>>

\* Line 110: fitz.open; bytes that are no PDF make it raise.
HlOpen(ok) ==
    /\ hpc = "try"
    /\ ok => pdf_bytes.valid
    /\ annots' = <<>>
    /\ IF ok THEN hpc' = "opened" /\ UNCHANGED raising
       ELSE hpc' = "finally" /\ raising' = TRUE
    /\ UNCHANGED <<tmp_exists, highlighted_pdf>>

\* HlAnnotate with the library's exception swallowed: the loops stop and the
\* function goes on to save what it has.
HlAnnotateSwallows ==
    LET all == DocAnnots(pdf_bytes.pages, all_key_phrases, 1) IN
    /\ hpc = "opened"
    /\ \E made \in 0..Len(all) : annots' = SubSeq(all, 1, made)
    /\ hpc' = "annotated"
    /\ UNCHANGED <<tmp_exists, raising, highlighted_pdf>>

\* Lines 113-125: the two loops; a library call that raises leaves the
\* annotations made before it on doc.
HlAnnotate ==
    LET all == DocAnnots(pdf_bytes.pages, all_key_phrases, 1) IN
    /\ hpc = "opened"
    /\ \E made \in 0..Len(all) :
          /\ annots' = SubSeq(all, 1, made)
          /\ IF made = Len(all)
             THEN hpc' = "annotated" /\ UNCHANGED raising
             ELSE hpc' = "finally" /\ raising' = TRUE
    /\ UNCHANGED <<tmp_exists, highlighted_pdf>>

\* Lines 128-134: doc.save into a BytesIO, whose value is the return value.
HlSave(ok) ==
    /\ hpc = "annotated"
    /\ IF ok THEN highlighted_pdf' = Annotated(pdf_bytes, annots) /\ UNCHANGED raising
       ELSE raising' = TRUE /\ UNCHANGED highlighted_pdf
    /\ hpc' = "finally"
    /\ UNCHANGED <<tmp_exists, annots>>

\* Lines 136-141: os.unlink, whose failure is swallowed; then the return or
\* the exception goes on.
HlFinally(unlinked) ==
    /\ hpc = "finally"
    /\ tmp_exists' = ~unlinked
    /\ hpc' = IF raising THEN "raised" ELSE "returned"
    /\ UNCHANGED <<annots, raising, highlighted_pdf>>

\* --------------------------------------------------------------------- main
DefaultMaxChunkSize == 3000     \* chunk_text(text, max_chunk_size=3000)
ConfirmThreshold == 10          \* if len(chunks) > 10
DefaultRetryCount == 3          \* get_key_phrases_for_chunk(..., retry_count=3)

\* MainRun asking for the confirmation only above 12 chunks.
MainRunLateGate ==
    /\ pc = "start"
    /\ clicked' = FALSE
    /\ IF ~pdf_bytes.valid
       THEN pc' = "failed" /\ UNCHANGED <<text, max_chunk_size, chunks, i, all_key_phrases>>
       ELSE /\ text' = extract_text_from_pdf(pdf_bytes.pages)
            /\ max_chunk_size' = DefaultMaxChunkSize
            /\ chunks' = chunk_text(text', DefaultMaxChunkSize)
            /\ LET proceed == IF Len(chunks') > ConfirmThreshold + 2 THEN clicked ELSE TRUE IN
               IF proceed
               THEN pc' = "loop" /\ i' = 0 /\ all_key_phrases' = <<>>
               ELSE pc' = "suspended" /\ UNCHANGED <<i, all_key_phrases>>
    /\ UNCHANGED <<pdf_bytes, go_ahead, progress, slept, download>>

\* Lines 153-191, one run of the script up to the loop: extraction (bytes
\* PyPDF2 cannot read raise, line 221 catches), chunking, and the gate: above
\* 10 chunks st.button decides, which is True only in the run its click started.
MainRun ==
    /\ pc = "start"
    /\ clicked' = FALSE
    /\ IF ~pdf_bytes.valid
       THEN pc' = "failed" /\ UNCHANGED <<text, max_chunk_size, chunks, i, all_key_phrases>>
       ELSE /\ text' = extract_text_from_pdf(pdf_bytes.pages)
            /\ max_chunk_size' = DefaultMaxChunkSize
            /\ chunks' = chunk_text(text', DefaultMaxChunkSize)
            /\ LET proceed == IF Len(chunks') > ConfirmThreshold THEN clicked ELSE TRUE IN
               IF proceed
               THEN pc' = "loop" /\ i' = 0 /\ all_key_phrases' = <<>>
               ELSE pc' = "suspended" /\ UNCHANGED <<i, all_key_phrases>>
    /\ UNCHANGED <<pdf_bytes, go_ahead, progress, slept, download>>

\* A click on the confirmation button, shown by a run that ended at the gate:
\* Streamlit runs the script again, and st.button returns True in that run.
UserClick ==
    /\ pc = "suspended"
    /\ clicked' = TRUE
    /\ go_ahead' = TRUE
    /\ pc' = "start"
    /\ UNCHANGED <<pdf_bytes, all_key_phrases, i, progress, slept, download>>

\* Lines 193-201: the next iteration shows the progress and calls the client.
MainIter ==
    /\ pc = "loop"
    /\ i < Len(chunks)
    /\ progress' = i + 1
    /\ retry_count' = DefaultRetryCount
    /\ attempt' = 0
    /\ response' = NoResponse
    /\ sent' = 0
    /\ waited' = 0
    /\ wait_time' = 0
    /\ reported' = FALSE
    /\ key_phrases' = <<>>
    /\ cpc' = "loop"
    /\ pc' = "call"
    /\ UNCHANGED <<pdf_bytes, all_key_phrases, clicked, go_ahead, i, slept, download>>

\* MainAfterCall putting the new phrases in front of the accumulated ones.
MainAfterCallPrepends ==
    /\ pc = "call"
    /\ cpc = "returned"
    /\ all_key_phrases' = key_phrases \o all_key_phrases
    /\ slept' = IF i < Len(chunks) - 1 THEN slept + 1 ELSE slept
    /\ i' = i + 1
    /\ cpc' = "idle"
    /\ pc' = "loop"
    /\ UNCHANGED <<pdf_bytes, clicked, go_ahead, progress, download>>
    /\ UNCHANGED <<retry_count, attempt, response, sent, waited, wait_time, reported,
                   key_phrases>>

\* MainAfterCall without the test of line 205: it sleeps after the last chunk too.
MainAfterCallAlwaysSleeps ==
    /\ pc = "call"
    /\ cpc = "returned"
    /\ all_key_phrases' = all_key_phrases \o key_phrases
    /\ slept' = slept + 1
    /\ i' = i + 1
    /\ cpc' = "idle"
    /\ pc' = "loop"
    /\ UNCHANGED <<pdf_bytes, clicked, go_ahead, progress, download>>
    /\ UNCHANGED <<retry_count, attempt, response, sent, waited, wait_time, reported,
                   key_phrases>>

\* Lines 201-206: the client returned: extend, sleep unless this was the last chunk.
MainAfterCall ==
    /\ pc = "call"
    /\ cpc = "returned"
    /\ all_key_phrases' = all_key_phrases \o key_phrases
    /\ slept' = IF i < Len(chunks) - 1 THEN slept + 1 ELSE slept
    /\ i' = i + 1
    /\ cpc' = "idle"
    /\ pc' = "loop"
    /\ UNCHANGED <<pdf_bytes, clicked, go_ahead, progress, download>>
    /\ UNCHANGED <<retry_count, attempt, response, sent, waited, wait_time, reported,
                   key_phrases>>

\* Lines 208-210: after the loop, highlight_pdf(pdf_bytes, all_key_phrases).
MainHighlight ==
    /\ pc = "loop"
    /\ i >= Len(chunks)
    /\ hpc' = "start"
    /\ pc' = "highlight"
    /\ UNCHANGED <<tmp_exists, annots, raising, highlighted_pdf>>
    /\ UNCHANGED <<pdf_bytes, all_key_phrases, clicked, go_ahead, i, progress, slept,
                   download>>

\* Lines 213-219: highlight_pdf returned: the download button gets its value.
MainDownload ==
    /\ pc = "highlight"
    /\ hpc = "returned"
    /\ download' = highlighted_pdf
    /\ pc' = "done"
    /\ UNCHANGED <<pdf_bytes, all_key_phrases, clicked, go_ahead, i, progress, slept>>

\* Lines 221-224: an exception out of the client or of highlight_pdf is caught
\* and shown; the run ends there.
MainExcept ==
    /\ \/ pc = "call" /\ cpc = "raised"
       \/ pc = "highlight" /\ hpc = "raised"
    /\ pc' = "failed"
    /\ UNCHANGED <<pdf_bytes, all_key_phrases, clicked, go_ahead, i, progress, slept,
                   download>>

\* -------------------------------------------------------- the specifications
IdleChunk == text = <<>> /\ max_chunk_size = 0 /\ chunks = <<>>

IdleClient ==
    /\ retry_count = 0
    /\ attempt = 0
    /\ response = NoResponse
    /\ sent = 0
    /\ waited = 0
    /\ wait_time = 0
    /\ reported = FALSE
    /\ key_phrases = <<>>
    /\ cpc = "idle"

IdleHl ==
    /\ tmp_exists = FALSE
    /\ annots = <<>>
    /\ raising = FALSE
    /\ highlighted_pdf = NoDocument
    /\ hpc = "idle"

IdleMain ==
    /\ pdf_bytes = CorruptDocument
    /\ all_key_phrases = <<>>
    /\ clicked = FALSE
    /\ go_ahead = FALSE
    /\ i = 0
    /\ progress = 0
    /\ slept = 0
    /\ download = NoDocument

\* chunk_text on its own: any text, any max_chunk_size.
ChunkChars == {"a", "b", NL}

InitChunk ==
    /\ text \in SeqsUpTo(ChunkChars, MaxLen)
    /\ max_chunk_size \in 0..MaxM
    /\ chunks = <<>>
    /\ IdleClient /\ IdleHl /\ IdleMain
    /\ pc = "chunk_start"

NextChunk == ChunkText

SpecChunk == InitChunk /\ [][NextChunk]_vars

\* get_key_phrases_for_chunk on its own: any retry_count, any responses.
ClientContents == SeqsUpTo({"a", " ", NL}, MaxContent)
ClientTails == SeqsUpTo(HintChars, MaxHint)
ClientResponses == Responses(ClientContents, ClientTails)

InitClient ==
    /\ IdleChunk /\ IdleHl /\ IdleMain
    /\ retry_count \in 0..MaxRetry
    /\ attempt = 0
    /\ response = NoResponse
    /\ sent = 0
    /\ waited = 0
    /\ wait_time = 0
    /\ reported = FALSE
    /\ key_phrases = <<>>
    /\ cpc = "loop"
    /\ pc = "client"

NextClient ==
    \/ (\E r \in ClientResponses : ClientPost(r))
           /\ UNCHANGED <<chunkVars, hlVars, mainVars>>
    \/ ClientLoopEnd /\ UNCHANGED <<chunkVars, hlVars, mainVars>>
    \/ Client200 /\ UNCHANGED <<chunkVars, hlVars, mainVars>>
    \/ Client429 /\ UNCHANGED <<chunkVars, hlVars, mainVars>>
    \/ ClientOther /\ UNCHANGED <<chunkVars, hlVars, mainVars>>

SpecClient == InitClient /\ [][NextClient]_vars

\* highlight_pdf on its own: documents of up to MaxPages pages and up to
\* MaxPhrases phrases, some padded with blanks, some too short, some absent.
HlPageTexts == {Repeat(<<"a">>, 7), Repeat(<<"a">>, 6) \o <<"b">>}
HlPhrases ==
    {Repeat(<<" ">>, pad) \o Repeat(<<"a">>, n) \o <<c>> \o Repeat(<<" ">>, pad) :
        pad \in 0..1, n \in 4..6, c \in {"a", "b"}}

InitHighlight ==
    /\ IdleChunk /\ IdleClient
    /\ pdf_bytes \in {Document(ps) : ps \in SeqsUpTo(HlPageTexts, MaxPages)}
                        \cup {CorruptDocument}
    /\ all_key_phrases \in SeqsUpTo(HlPhrases, MaxPhrases)
    /\ clicked = FALSE /\ go_ahead = FALSE /\ i = 0 /\ progress = 0 /\ slept = 0
    /\ download = NoDocument
    /\ tmp_exists = FALSE
    /\ annots = <<>>
    /\ raising = FALSE
    /\ highlighted_pdf = NoDocument
    /\ hpc = "start"
    /\ pc = "highlight_pdf"

HlStep ==
    \/ \E ok \in BOOLEAN : HlWriteTmp(ok)
    \/ \E ok \in BOOLEAN : HlOpen(ok)
    \/ HlAnnotate
    \/ \E ok \in BOOLEAN : HlSave(ok)
    \/ \E unlinked \in BOOLEAN : HlFinally(unlinked)

NextHighlight == HlStep /\ UNCHANGED <<chunkVars, clientVars, mainVars>>

SpecHighlight == InitHighlight /\ [][NextHighlight]_vars

\* main: an uploaded document of up to MaxDocPages pages, all with the same
\* text: none, a short paragraph, or a paragraph longer than a chunk.
MainPageTexts == {<<>>, Repeat(<<"a">>, 6) \o <<"b">>, <<BigRunChar>>}
MainContents == {Repeat(<<"a">>, 6), <<" ">> \o Repeat(<<"a">>, 5) \o <<"b">>}
MainTails == {<<"2", ".", "5", "s">>}
MainResponses == Responses(MainContents, MainTails)

Init ==
    /\ IdleChunk /\ IdleClient /\ IdleHl
    /\ pdf_bytes \in {Document(Repeat(<<t>>, n)) : t \in MainPageTexts, n \in 0..MaxDocPages}
                        \cup {CorruptDocument}
    /\ all_key_phrases = <<>>
    /\ clicked = FALSE
    /\ go_ahead = FALSE
    /\ i = 0
    /\ progress = 0
    /\ slept = 0
    /\ download = NoDocument
    /\ pc = "start"

\* The service answers with phrases only while all_key_phrases has room for them.
\* (main calls the client with retry_count = 3, and then the return of line 99,
\* ClientLoopEnd, is never reached: line 93 returns in the last iteration.)
MainPost ==
    \E r \in MainResponses :
        /\ r.kind = "content" =>
               Len(all_key_phrases) + Len(ParseContent(r.data)) <= MaxPhrases
        /\ ClientPost(r)

Next ==
    \/ MainRun /\ UNCHANGED <<clientVars, hlVars>>
    \/ UserClick /\ UNCHANGED <<chunkVars, clientVars, hlVars>>
    \/ MainIter /\ UNCHANGED <<chunkVars, hlVars>>
    \/ MainPost /\ UNCHANGED <<chunkVars, hlVars, mainVars>>
    \/ Client200 /\ UNCHANGED <<chunkVars, hlVars, mainVars>>
    \/ Client429 /\ UNCHANGED <<chunkVars, hlVars, mainVars>>
    \/ ClientOther /\ UNCHANGED <<chunkVars, hlVars, mainVars>>
    \/ MainAfterCall /\ UNCHANGED <<chunkVars, hlVars>>
    \/ MainHighlight /\ UNCHANGED <<chunkVars, clientVars>>
    \/ HlStep /\ UNCHANGED <<chunkVars, clientVars, mainVars>>
    \/ MainDownload /\ UNCHANGED <<chunkVars, clientVars, hlVars>>
    \/ MainExcept /\ UNCHANGED <<chunkVars, clientVars, hlVars>>

Spec == Init /\ [][Next]_vars

\* ------------------------------------------------------ the chunker's claims
\* C1: joining the chunks chunk_text returned with the blank-line separator
\* restored at each chunk boundary gives back the input text exactly.
C1_RoundTrip == pc = "chunk_done" => join(chunks, BlankLine) = text

\* C2: every chunk chunk_text returned has a length of at most max_chunk_size,
\* unless it is a single paragraph that is itself longer than max_chunk_size.
C2_SizeBound ==
    pc = "chunk_done" =>
        \A k \in 1..Len(chunks) :
            \/ len(chunks[k]) <= max_chunk_size
            \/ Len(split_blank(chunks[k])) = 1

\* C15: the paragraphs of the text longer than max_chunk_size are, in their
\* order and one for one, the chunks that are a single paragraph longer than
\* max_chunk_size: each is a chunk of its own, whole and merged with nothing.
C15_OversizedAlone ==
    pc = "chunk_done" =>
        SelectSeq(split_blank(text), LAMBDA p : len(p) > max_chunk_size)
            = SelectSeq(chunks, LAMBDA c : len(c) > max_chunk_size /\ FindBlankLine(c) = 0)

\* Reached: a paragraph of length 2 between two of length 1, with
\* max_chunk_size = 1, came out as the second of three chunks.
C15_Witness ==
    /\ pc = "chunk_done"
    /\ max_chunk_size = 1
    /\ text = <<"a">> \o BlankLine \o <<"b", "b">> \o BlankLine \o <<"a">>
    /\ chunks = << <<"a">>, <<"b", "b">>, <<"a">> >>

\* C19: no chunk of the list chunk_text returned is the empty string; the
\* chunks the orchestrator hands to the client are the elements of that list.
C19_NoEmptyChunk == \A k \in 1..Len(chunks) : chunks[k] # <<>>

\* Reached: a text whose first and third paragraphs are empty gave two
\* chunks, neither of them empty.
C19_Witness ==
    /\ pc = "chunk_done"
    /\ max_chunk_size = 0
    /\ text = BlankLine \o <<"a">> \o BlankLine \o BlankLine \o <<"b">>
    /\ chunks = << <<"a">>, <<"b">> >>
\* ------------------------------------------------------- the client's claims
ClientDone == cpc \in {"returned", "raised"}

\* The steps a call may still take, at most: two for each iteration left (the
\* post, the handling of its response) and one to leave the loop.
ClientStepsLeft ==
    IF ClientDone THEN 0
    ELSE IF cpc = "response" THEN 2 * (retry_count - attempt)
    ELSE 2 * (retry_count - attempt) + 1

\* C3: a call posts at most retry_count requests, posts none after the first
\* response that is not a 429, returns the empty list when all retry_count
\* attempts were answered with 429, and always ends: until it has ended it can
\* take a step, and every step brings a bounded count of steps left closer to 0.
C3_BoundedRetry ==
    /\ [](sent <= retry_count)
    /\ [][response.status \notin {0, 429} => sent' = sent]_vars
    /\ [](cpc = "returned" /\ waited = retry_count => key_phrases = <<>>)
    /\ [](ClientDone \/ ENABLED NextClient)
    /\ [](ClientStepsLeft >= 0)
    /\ [][ClientStepsLeft' < ClientStepsLeft]_vars

\* Reached: three attempts, each answered with 429, and the call has returned.
C3_Witness ==
    /\ cpc = "returned" /\ retry_count = 3 /\ sent = 3 /\ waited = 3
    /\ response.status = 429

\* The wait hint of a message "... try again in " + tail, as the claim reads it:
\* a whole or decimal number of seconds followed by "s"; in ticks, -1 if none.
HintTicks(tail) ==
    LET n == DigitRun(tail, 1)
        m == DigitRun(tail, n + 2)
    IN IF n >= 1 /\ n + 1 <= Len(tail) /\ tail[n + 1] = "s"
       THEN WholeValue(tail, 1, n) * TicksPerSecond
       ELSE IF /\ n >= 1
               /\ n + 1 <= Len(tail) /\ tail[n + 1] = "."
               /\ m >= 1
               /\ n + 2 + m <= Len(tail) /\ tail[n + 2 + m] = "s"
            THEN WholeValue(tail, 1, n) * TicksPerSecond
                     + WholeValue(tail, n + 2, n + 1 + m) * 10 ^ (MaxHint - m)
            ELSE -1

\* C4: handling a 429 response, the client waits N + 1 seconds when the message
\* carries a hint of N seconds, whole or fractional, and 10 seconds otherwise.
C4_Backoff ==
    [][(cpc = "response" /\ response.status = 429) =>
           wait_time' =
               IF response.kind = "message" /\ HintTicks(response.data) >= 0
               THEN HintTicks(response.data) + TicksPerSecond
               ELSE 10 * TicksPerSecond]_vars

\* C6: once a response with a status other than 200 and 429 has been handled,
\* the call has reported it and returned the empty list, with no wait for it and
\* no request after it, whatever the number of attempts left.
C6_NonRetryable ==
    (response.status \notin {0, 200, 429} /\ cpc # "response") =>
        /\ cpc = "returned"
        /\ key_phrases = <<>>
        /\ reported
        /\ sent = attempt + 1
        /\ waited = attempt

\* Reached: the first of three attempts got a 500 and the call has returned.
C6_Witness ==
    /\ response.status = 500 /\ cpc = "returned"
    /\ retry_count = 3 /\ attempt = 0 /\ sent = 1

\* ------------------------------------------------- the highlighter's claims
Range(q) == {q[k] : k \in 1..Len(q)}
Trimmed(n) == strip(all_key_phrases[n])
PageNums == 1..Len(pdf_bytes.pages)
PhraseNums == 1..Len(all_key_phrases)

\* C7: no annotation is ever made for a phrase whose trimmed length is below
\* 6, and after a normal return every occurrence of a phrase of trimmed length
\* exactly 6 carries an annotation made for it.
C7_MinLength ==
    /\ \A k \in 1..Len(annots) : len(Trimmed(annots[k].from)) >= 6
    /\ hpc = "returned" =>
           \A n \in PhraseNums : \A p \in PageNums :
               len(Trimmed(n)) = 6 =>
                   \A r \in Range(search_for(pdf_bytes.pages[p], Trimmed(n))) :
                       \E k \in 1..Len(annots) :
                           /\ annots[k].page = p
                           /\ annots[k].region = r
                           /\ annots[k].from = n

\* Reached: highlight_pdf returned with no annotation although a phrase of
\* trimmed length 5 (7 with its blanks) occurs on a page.
C7_Witness ==
    /\ hpc = "returned"
    /\ annots = <<>>
    /\ \E n \in PhraseNums : \E p \in PageNums :
           /\ len(Trimmed(n)) = 5
           /\ len(all_key_phrases[n]) > 5
           /\ search_for(pdf_bytes.pages[p], Trimmed(n)) # <<>>

\* C8: after a normal return every annotation is yellow and sits on a region
\* the search of its page returned for the trimmed phrase it was made for, and
\* every region returned for a phrase of trimmed length above 5 carries exactly
\* one annotation made for that phrase; so a phrase adds nothing to a page
\* where it has no match.
C8_ExactMatches ==
    hpc = "returned" =>
        /\ \A k \in 1..Len(annots) :
               /\ annots[k].page \in PageNums
               /\ annots[k].from \in PhraseNums
               /\ annots[k].color = "yellow"
               /\ annots[k].region \in
                      Range(search_for(pdf_bytes.pages[annots[k].page],
                                       Trimmed(annots[k].from)))
        /\ \A n \in PhraseNums : \A p \in PageNums :
               len(Trimmed(n)) > 5 =>
                   \A r \in Range(search_for(pdf_bytes.pages[p], Trimmed(n))) :
                       Cardinality({k \in 1..Len(annots) :
                                       /\ annots[k].page = p
                                       /\ annots[k].region = r
                                       /\ annots[k].from = n}) = 1
        /\ highlighted_pdf = Annotated(pdf_bytes, annots)

\* Reached: two phrases long enough, the first on the only page once, the
\* second nowhere: the call returned with exactly one annotation.
C8_Witness ==
    /\ hpc = "returned"
    /\ Len(pdf_bytes.pages) = 1
    /\ Len(all_key_phrases) = 2
    /\ len(Trimmed(1)) > 5 /\ len(Trimmed(2)) > 5
    /\ Len(search_for(pdf_bytes.pages[1], Trimmed(1))) = 1
    /\ search_for(pdf_bytes.pages[1], Trimmed(2)) = <<>>
    /\ Len(annots) = 1
    /\ Len(highlighted_pdf.annots) = 1

\* ------------------------------------------------ the orchestrator's claims
\* C5: the run never ends in the error state because of what the service
\* answered for a chunk: no exception leaves the client.
C5_NoEscalation == pc = "failed" => cpc # "raised"

\* C9: with more than 10 chunks no progress is shown, no client call made and
\* no highlighting started before the button has been clicked; with at most
\* 10 chunks the run never stops at the gate.
C9_Gate ==
    /\ (Len(chunks) > 10 /\ (progress > 0 \/ cpc # "idle" \/ hpc # "idle")) => go_ahead
    /\ (pc = "suspended") => (Len(chunks) > 10 /\ progress = 0 /\ hpc = "idle")
    /\ (pc \in {"loop", "call"} /\ Len(chunks) <= 10) => ~go_ahead

\* Reached: a document of more than 10 chunks is being sent after the click.
C9_Witness == Len(chunks) > 10 /\ go_ahead /\ sent > 0 /\ pc = "call"

\* C10: a run that failed offers no download; a download is offered only once
\* highlight_pdf has returned, and it is the uploaded document with the
\* annotations of all phrases; the uploaded bytes never change.
C10_AllOrNothing ==
    /\ [](pc = "failed" => download = NoDocument)
    /\ [](hpc = "raised" => pc \in {"highlight", "failed"} /\ highlighted_pdf = NoDocument)
    /\ [](download # NoDocument =>
             /\ pc = "done"
             /\ hpc = "returned"
             /\ download =
                    Annotated(pdf_bytes, DocAnnots(pdf_bytes.pages, all_key_phrases, 1)))
    /\ [][pdf_bytes' = pdf_bytes]_vars

\* Reached: doc.save raised after an annotation had been added, and the run
\* ended in the error state.
C10_Witness ==
    /\ pc = "failed" /\ hpc = "raised"
    /\ Len(annots) > 0
    /\ annots = DocAnnots(pdf_bytes.pages, all_key_phrases, 1)

\* ------------------------------------------- the highlighter's resources
\* C11: when a call of highlight_pdf has ended, by a return or by an exception
\* raised at any of its steps, the temporary file it created does not exist.
C11_TmpReleased == hpc \in {"returned", "raised"} => ~tmp_exists

\* ------------------------------------------------ more claims on the client
\* C12: what the client returns for a 200 response has one phrase for each
\* line of the content, and no phrase begins or ends with whitespace.
C12_TrimmedLines ==
    (cpc = "returned" /\ response.status = 200) =>
        /\ Len(key_phrases) = Len(split_lines(strip(response.data)))
        /\ \A k \in 1..Len(key_phrases) : strip(key_phrases[k]) = key_phrases[k]

\* C20: the step that handles a 429 response sleeps once, for the whole wait
\* of that response, and no other step sleeps; so the sleeps counted are the
\* responses received, less the one not handled yet or the one that was not a
\* 429 and ended the call, and a call that returned on a 429 has slept once
\* for each of its retry_count requests, the last one included.
C20_WaitEvery429 ==
    /\ [][(cpc = "response" /\ response.status = 429) =>
              (waited' = waited + 1 /\ wait_time' = WaitFor(response))]_vars
    /\ [][waited' # waited => (cpc = "response" /\ response.status = 429)]_vars
    /\ [](waited = IF \/ cpc = "response"
                     \/ (ClientDone /\ response.status \notin {0, 429})
                  THEN sent - 1 ELSE sent)
    /\ []((cpc = "returned" /\ response.status = 429) =>
              /\ sent = retry_count /\ waited = retry_count
              /\ key_phrases = <<>>)

\* Reached: the only attempt allowed was answered with a 429 without a hint,
\* and the call returned after the default wait.
C20_Witness ==
    /\ cpc = "returned" /\ retry_count = 1
    /\ response.status = 429 /\ response.kind = "no_message"
    /\ sent = 1 /\ waited = 1
    /\ wait_time = DefaultWait * TicksPerSecond
    /\ key_phrases = <<>>

\* ------------------------------------------- more claims on the orchestrator
\* C13: the text extracted from a readable document is its page texts in page
\* order with the blank-line separator between consecutive pages and nowhere
\* else.
C13_PageSeparators ==
    (pdf_bytes.valid /\ pc \in {"loop", "call", "suspended", "highlight", "done", "failed"}) =>
        text = join(pdf_bytes.pages, BlankLine)

\* A readable document with no page, or with no text on any of its pages.
EmptyDocument ==
    pdf_bytes.valid /\ \A p \in 1..Len(pdf_bytes.pages) : pdf_bytes.pages[p] = <<>>

C16_ProgressAfterCall == progress <= i

\* C17: the run has slept one second once for each completed chunk that has a
\* successor: i times while chunk i + 1 is in work or about to be, and
\* len(chunks) - 1 times from the end of the last chunk on.  A delay is made
\* only by the step that completes a chunk with a successor, so it lies before
\* the first request of the next chunk, and no step of the client that waits
\* for the rate limit makes one.
C17_Pacing ==
    /\ [](slept = IF i < Len(chunks) THEN i
                  ELSE IF Len(chunks) = 0 THEN 0 ELSE Len(chunks) - 1)
    /\ [][slept' # slept =>
              /\ slept' = slept + 1
              /\ pc = "call" /\ cpc = "returned"
              /\ i' = i + 1 /\ i' < Len(chunks)]_vars
    /\ [][(sent = 0 /\ sent' = 1) => slept = i]_vars
    /\ [][waited' # waited => slept' = slept]_vars

\* Reached: a run over three chunks has ended with two delays, and the call
\* for the last chunk had waited three times for the rate limit.
C17_Witness ==
    /\ pc = "done"
    /\ Len(chunks) = 3
    /\ slept = 2
    /\ waited = 3

IsPrefix(a, b) == Len(a) <= Len(b) /\ SubSeq(b, 1, Len(a)) = a

\* C18: in the loop all_key_phrases only grows at its end; it changes only in
\* the step that completes a chunk, which appends exactly what the client
\* returned for that chunk, duplicates and all, and moves on to the next chunk;
\* the chunk in work is always chunk i + 1 of the list, the client is called only
\* from the head of the loop, and highlight_pdf starts only when all chunks
\* have been completed.
C18_Accumulation ==
    /\ [][IsPrefix(all_key_phrases, all_key_phrases') \/ pc \notin {"loop", "call"}]_vars
    /\ [][(i' # i \/ all_key_phrases' # all_key_phrases \/ (pc = "call" /\ pc' = "loop")) =>
              /\ pc = "call" /\ cpc = "returned"
              /\ i' = i + 1
              /\ all_key_phrases' = all_key_phrases \o key_phrases]_vars
    /\ [][(cpc = "idle" /\ cpc' # "idle") => (pc = "loop" /\ pc' = "call")]_vars
    /\ [](pc = "call" => i < Len(chunks))
    /\ [](hpc # "idle" => i = Len(chunks))

\* Reached: a run over two chunks has ended; the call for the second chunk
\* returned one phrase, and it stands behind the same phrase of the first chunk.
C18_Witness ==
    /\ pc = "done"
    /\ Len(chunks) = 2
    /\ Len(key_phrases) = 1
    /\ all_key_phrases = <<key_phrases[1], key_phrases[1]>>
====
